---- MODULE Spec2Model ----
(***************************************************************************)
(* Model of the fetch engine of the web scraping bot:                      *)
(*   WebScrapingBot.scrape_webpage / init_session / close_session          *)
(*   ScrapingChatbot.scrape_url                                            *)
(* Each action is one atomic block of a coroutine: the code that runs      *)
(* between two points where the coroutine is suspended (asyncio.sleep, the *)
(* GET, session.close).  Times are in milliseconds.                        *)
(***************************************************************************)
EXTENDS Integers, Sequences, FiniteSets, TLC

VARIABLES session, current_content, call, html_content, extracted, groq

vars == <<session, current_content, call, html_content, extracted, groq>>

----------------------------------------------------------------------------
(* Bounds of the model *)

MaxRetries == 2
MaxBodyLen == 2
JitterGrid == 1

(* Program constants *)

DefaultMaxRetries == 3
BackoffBase == 2
CooldownBase == 10
CooldownStep == 5
MsPerSecond == 1000

Procs == {1, 2}
SeqProcs == {1}

----------------------------------------------------------------------------
(* Text: a string is a sequence of one-character strings *)

Chars == {" ", "a"}
Whitespace == {" ", "\t", "\n", "\r"}

Bodies == UNION {[1..n -> Chars] : n \in 0..MaxBodyLen}

RECURSIVE LStrip(_)
LStrip(s) ==
    IF s = <<>> THEN <<>>
    ELSE IF Head(s) \in Whitespace THEN LStrip(Tail(s)) ELSE s

RECURSIVE RStrip(_)
RStrip(s) ==
    IF s = <<>> THEN <<>>
    ELSE IF s[Len(s)] \in Whitespace THEN RStrip(SubSeq(s, 1, Len(s) - 1)) ELSE s

Strip(s) == RStrip(LStrip(s))

StartsWith(s, prefix) ==
    /\ Len(s) >= Len(prefix)
    /\ SubSeq(s, 1, Len(prefix)) = prefix

HttpPrefix == <<"h", "t", "t", "p", ":", "/", "/">>
HttpsPrefix == <<"h", "t", "t", "p", "s", ":", "/", "/">>

ValidUrl_SchemeOnly(u) == StartsWith(u, <<"h", "t", "t", "p">>)

ValidUrl(u) == StartsWith(u, HttpPrefix) \/ StartsWith(u, HttpsPrefix)

Urls ==
    { HttpPrefix \o <<"a">>,
      HttpsPrefix \o <<"a">>,
      <<"f", "t", "p", ":", "/", "/", "a">>,
      <<"h", "t", "t", "p", ":", "/", "a">>,
      <<"H", "T", "T", "P", ":", "/", "/", "a">>,
      <<"a">>,
      <<>> }

RECURSIVE Pow(_, _)
Pow(b, n) == IF n = 0 THEN 1 ELSE b * Pow(b, n - 1)

----------------------------------------------------------------------------
(* Exceptions *)

Error(type, msg, status) == [type |-> type, msg |-> msg, status |-> status]

NoError == Error("None", "", 0)
PersistentServerError == Error("ClientError", "Persistent server error (500)", 500)
ClientStatusError(status) == Error("ClientError", "Client error", status)
ClientResponseError(status) == Error("ClientResponseError", "raise_for_status", status)
EmptyResponseError == Error("Exception", "Received empty response from server", 200)
TimedOutError == Error("Exception", "Request timed out", 0)
TransportError == Error("ClientConnectionError", "transport failure", 0)
NoSessionError == Error("AttributeError", "NoneType has no attribute get", 0)
SessionClosedError == Error("RuntimeError", "Session is closed", 0)
RetriesExhaustedError == Error("Exception", "Failed to scrape webpage after all retries", 0)
InvalidUrlError == Error("ValueError", "URL must start with http:// or https://", 0)
ScrapeUrlError(cause) == Error("Exception", "Failed to scrape URL", cause.status)

KeyError(k) == Error("KeyError", k, 0)

(* Results of a call *)

NoResult == [kind |-> "none", value |-> <<>>, error |-> NoError]
Returned(v) == [kind |-> "return", value |-> v, error |-> NoError]
Raised(e) == [kind |-> "raise", value |-> <<>>, error |-> e]

(* What one GET can end in *)

Statuses == {200, 204, 401, 403, 404, 429, 500, 503}

Response(status, body) == [kind |-> "response", status |-> status, body |-> body]

Outcomes ==
    {Response(200, b) : b \in Bodies}
    \cup {Response(s, <<>>) : s \in Statuses \ {200}}
    \cup {[kind |-> "timeout", status |-> 0, body |-> <<>>],
          [kind |-> "client_error", status |-> 0, body |-> <<>>]}

Jitter == {(i * MsPerSecond) \div JitterGrid : i \in 0..JitterGrid}

----------------------------------------------------------------------------
(* The content extractor: WebScrapingBot._extract_main_content.            *)
(* The input is the document tree that BeautifulSoup(html_content,         *)
(* 'html.parser') builds, as the sequence of its elements in document      *)
(* order; the text of an element is what get_text() returns for it.        *)

LowerCase == <<"a", "b", "c", "d", "e", "f", "g", "h", "i", "j", "k", "l", "m", "n", "o", "p", "q", "r", "s", "t", "u", "v", "w", "x", "y", "z">>
UpperCase == <<"A", "B", "C", "D", "E", "F", "G", "H", "I", "J", "K", "L", "M", "N", "O", "P", "Q", "R", "S", "T", "U", "V", "W", "X", "Y", "Z">>
Digits == {"0", "1", "2", "3", "4", "5", "6", "7", "8", "9"}
Letters == {LowerCase[i] : i \in DOMAIN LowerCase} \cup {UpperCase[i] : i \in DOMAIN UpperCase}

SeqToSet(xs) == {xs[i] : i \in DOMAIN xs}

Reverse(xs) == [i \in DOMAIN xs |-> xs[Len(xs) + 1 - i]]

RECURSIVE Concat(_)
Concat(xss) == IF xss = <<>> THEN <<>> ELSE Head(xss) \o Concat(Tail(xss))

(* sep.join(xs) *)
RECURSIVE JoinWith(_, _)
JoinWith(sep, xs) ==
    IF xs = <<>> THEN <<>>
    ELSE IF Len(xs) = 1 THEN xs[1]
    ELSE xs[1] \o sep \o JoinWith(sep, Tail(xs))

Rep(c, n) == [i \in 1..n |-> c]

(* str.lower *)
LowerChar(c) ==
    IF \E i \in DOMAIN UpperCase : UpperCase[i] = c
    THEN LowerCase[CHOOSE i \in DOMAIN UpperCase : UpperCase[i] = c]
    ELSE c

Lower(s) == [i \in DOMAIN s |-> LowerChar(s[i])]

(* pattern in s *)
Contains(s, pattern) ==
    \E i \in 1..(Len(s) - Len(pattern) + 1) :
        SubSeq(s, i, i + Len(pattern) - 1) = pattern

(* The last index of the longest run of characters of a class that starts  *)
(* at index i; i - 1 when s[i] is not in the class.                        *)
RunEnd(s, i, class) ==
    LET stops == {j \in i..Len(s) : s[j] \notin class} IN
    IF stops = {} THEN IF i <= Len(s) THEN Len(s) ELSE i - 1
    ELSE (CHOOSE j \in stops : \A k \in stops : j <= k) - 1

(* list(set(xs)): the elements of xs once each, in the order of the set's  *)
(* hash table, which depends on the hash seed of the process.              *)
Orders(S) ==
    {f \in [1..Cardinality(S) -> S] : \A x \in S : \E i \in 1..Cardinality(S) : f[i] = x}

ListOfSet(xs, seed) ==
    LET c == CHOOSE f \in Orders(SeqToSet(xs)) : TRUE
    IN  IF seed = 0 THEN c ELSE Reverse(c)

(* Elements *)

Element(tag, text) ==
    [tag |-> tag, parent |-> "body", text |-> text, mixed |-> FALSE,
     name |-> "", has_content |-> FALSE, content |-> <<>>,
     has_href |-> FALSE, href |-> <<>>,
     items |-> <<>>, thead |-> "none", head_cells |-> <<>>, rows |-> <<>>]

Text(text) == Element("#text", text)
Title(text) == Element("title", text)
Meta(name, content) ==
    [Element("meta", <<>>) EXCEPT !.name = name, !.has_content = TRUE, !.content = content]
Heading(level, text) == Element(level, text)
Paragraph(text) == Element("p", text)
Anchor(href, text) == [Element("a", text) EXCEPT !.has_href = TRUE, !.href = href]
List(tag, items) == [Element(tag, Concat(items)) EXCEPT !.items = items]
Table(thead, head_cells, rows) ==
    [Element("table", Concat(head_cells) \o Concat([i \in DOMAIN rows |-> Concat(rows[i])]))
        EXCEPT !.thead = thead, !.head_cells = head_cells, !.rows = rows]
Within(parent, e) == [e EXCEPT !.parent = parent]

(* soup(['script', 'style', 'iframe', 'noscript']) ... decompose() *)

StrippedTags == {"script", "style", "iframe", "noscript"}

Decompose(doc) ==
    SelectSeq(doc, LAMBDA e : e.tag \notin StrippedTags /\ e.parent \notin StrippedTags)

find_all(soup, tag) == SelectSeq(soup, LAMBDA e : e.tag = tag)

(* str(soup) *)

Tagged(tag, inner) == <<"<">> \o tag \o <<">">> \o inner \o <<"<", "/">> \o tag \o <<">">>

TagName(tag) ==
    CASE tag = "title" -> <<"t", "i", "t", "l", "e">>
      [] tag = "p" -> <<"p">>
      [] tag = "ol" -> <<"o", "l">>
      [] tag = "ul" -> <<"u", "l">>
      [] tag = "h1" -> <<"h", "1">>
      [] tag = "h2" -> <<"h", "2">>
      [] tag = "h3" -> <<"h", "3">>
      [] tag = "h4" -> <<"h", "4">>
      [] tag = "h5" -> <<"h", "5">>
      [] tag = "h6" -> <<"h", "6">>
      [] OTHER -> <<"d", "i", "v">>

SerializeCells(cell_tag, cells) ==
    Concat([i \in DOMAIN cells |-> Tagged(cell_tag, cells[i])])

SerializeRow(cell_tag, cells) == Tagged(<<"t", "r">>, SerializeCells(cell_tag, cells))

Serialize(e) ==
    CASE e.tag = "#text" -> e.text
      [] e.tag = "meta" ->
            <<"<", "m", "e", "t", "a">>
            \o (IF e.has_content THEN <<" ", "c", "o", "n", "t", "e", "n", "t", "=", "\"">> \o e.content \o <<"\"">> ELSE <<>>)
            \o <<" ", "n", "a", "m", "e", "=", "\"", "d", "e", "s", "c", "r", "i", "p", "t", "i", "o", "n", "\"", "/", ">">>
      [] e.tag = "a" ->
            <<"<", "a">>
            \o (IF e.has_href THEN <<" ", "h", "r", "e", "f", "=", "\"">> \o e.href \o <<"\"">> ELSE <<>>)
            \o <<">">> \o e.text \o <<"<", "/", "a", ">">>
      [] e.tag \in {"ol", "ul"} ->
            Tagged(TagName(e.tag), SerializeCells(<<"l", "i">>, e.items))
      [] e.tag = "table" ->
            Tagged(<<"t", "a", "b", "l", "e">>,
                   (CASE e.thead = "row" ->
                            Tagged(<<"t", "h", "e", "a", "d">>, SerializeRow(<<"t", "h">>, e.head_cells))
                      [] e.thead = "cells" ->
                            Tagged(<<"t", "h", "e", "a", "d">>, SerializeCells(<<"t", "h">>, e.head_cells))
                      [] OTHER -> <<>>)
                   \o Concat([i \in DOMAIN e.rows |-> SerializeRow(<<"t", "d">>, e.rows[i])]))
      [] OTHER -> Tagged(TagName(e.tag), e.text)

SerializeAll(soup) == Concat([i \in DOMAIN soup |-> Serialize(soup[i])])

(* re.findall(email_pattern, s):                                           *)
(*   [a-zA-Z0-9._%+-]+@[a-zA-Z0-9.-]+\.[a-zA-Z]{2,}                        *)

EmailLocalChars == Letters \cup Digits \cup {".", "_", "%", "+", "-"}
EmailDomainChars == Letters \cup Digits \cup {".", "-"}
TldMinLen == 2

(* The index where the match that starts at i ends, 0 when there is none *)
MatchEmailAt(s, i) ==
    LET k == RunEnd(s, i, EmailLocalChars) IN
    IF k < i \/ k + 1 > Len(s) \/ s[k + 1] # "@" THEN 0
    ELSE LET d0 == k + 2
             dEnd == RunEnd(s, d0, EmailDomainChars)
             dots == {q \in (d0 + 1)..(dEnd - TldMinLen) :
                        /\ s[q] = "."
                        /\ \A n \in 1..TldMinLen : s[q + n] \in Letters}
         IN  IF dots = {} THEN 0
             ELSE LET q == CHOOSE x \in dots : \A y \in dots : y <= x
                  IN  RunEnd(s, q + 1, Letters)

(* The matches in s from index i on, left to right and not overlapping *)
RECURSIVE FindAllEmails(_, _)
FindAllEmails(s, i) ==
    LET ats == {a \in i..Len(s) : s[a] = "@"}
        starts == {j \in i..Len(s) :
                     /\ \E a \in ats : j < a /\ \A q \in j..(a - 1) : s[q] \in EmailLocalChars
                     /\ MatchEmailAt(s, j) > 0}
    IN
    IF starts = {} THEN <<>>
    ELSE LET j == CHOOSE x \in starts : \A y \in starts : x <= y
             e == MatchEmailAt(s, j)
         IN  <<SubSeq(s, j, e)>> \o FindAllEmails(s, e + 1)

(* re.findall(phone_pattern, s):   \+?[\d\s-]{10,}                         *)

PhoneChars == Digits \cup Whitespace \cup {"-"}
PhoneMinLen == 10

MatchPhoneAt(s, i) ==
    LET from == IF s[i] = "+" THEN i + 1 ELSE i
        e == RunEnd(s, from, PhoneChars)
    IN  IF e - from + 1 >= PhoneMinLen THEN e ELSE 0

(* The matches in s from index i on, left to right and not overlapping *)
RECURSIVE FindAllPhones(_, _)
FindAllPhones(s, i) ==
    LET starts == {j \in i..(Len(s) - PhoneMinLen + 1) :
                     /\ \A q \in (j + 1)..(j + PhoneMinLen - 1) : s[q] \in PhoneChars
                     /\ MatchPhoneAt(s, j) > 0}
    IN
    IF starts = {} THEN <<>>
    ELSE LET j == CHOOSE x \in starts : \A y \in starts : x <= y
             e == MatchPhoneAt(s, j)
         IN  <<SubSeq(s, j, e)>> \o FindAllPhones(s, e + 1)

(* re.sub(r'\D', '', p) *)
DigitsOf(p) == SelectSeq(p, LAMBDA c : c \in Digits)

(* The facets, in the order of the code *)

ExtractTitle(soup) ==
    LET tags == find_all(soup, "title") IN
    IF tags = <<>> THEN <<>>
    ELSE IF tags[1].mixed THEN <<>> ELSE Strip(tags[1].text)

ExtractMetaDescription(soup) ==
    LET tags == SelectSeq(soup, LAMBDA e : e.tag = "meta" /\ e.name = "description") IN
    IF tags = <<>> THEN <<>>
    ELSE IF tags[1].has_content THEN Strip(tags[1].content) ELSE <<>>

HeadingLevels == 1..6

HeadingTag(i) ==
    CASE i = 1 -> "h1" [] i = 2 -> "h2" [] i = 3 -> "h3"
      [] i = 4 -> "h4" [] i = 5 -> "h5" [] OTHER -> "h6"

StripAll(texts) == [i \in DOMAIN texts |-> Strip(texts[i])]

NonBlankTexts(texts) == SelectSeq(StripAll(texts), LAMBDA x : x # <<>>)

TextsOf(es) == [i \in DOMAIN es |-> es[i].text]

ExtractHeadings(soup) ==
    [i \in {l \in HeadingLevels : find_all(soup, HeadingTag(l)) # <<>>} |->
        NonBlankTexts(TextsOf(find_all(soup, HeadingTag(i))))]

ParagraphMinLen == 20

ExtractParagraphs_AtLeast(soup) ==
    SelectSeq(StripAll(TextsOf(find_all(soup, "p"))),
              LAMBDA x : x # <<>> /\ Len(x) >= ParagraphMinLen)

ExtractParagraphs(soup) ==
    SelectSeq(StripAll(TextsOf(find_all(soup, "p"))),
              LAMBDA x : x # <<>> /\ Len(x) > ParagraphMinLen)

AnchorsWithHref(soup) == SelectSeq(soup, LAMBDA e : e.tag = "a" /\ e.has_href)

LinkOf(a) == [url |-> a.href, text |-> Strip(a.text)]

LinksOf(anchors) == [i \in DOMAIN anchors |-> LinkOf(anchors[i])]

ExtractLinks_NoFragmentTest(soup) ==
    LinksOf(SelectSeq(AnchorsWithHref(soup),
                      LAMBDA a : a.href # <<>> /\ Strip(a.text) # <<>>))

ExtractLinks(soup) ==
    LinksOf(SelectSeq(AnchorsWithHref(soup),
                      LAMBDA a : /\ a.href # <<>>
                                 /\ Strip(a.text) # <<>>
                                 /\ ~StartsWith(a.href, <<"#">>)))

ListItems(e) == NonBlankTexts(e.items)

ExtractLists_KeepEmpty(soup, tag) ==
    LET ls == find_all(soup, tag) IN [i \in DOMAIN ls |-> ListItems(ls[i])]

ExtractLists(soup, tag) ==
    LET ls == find_all(soup, tag) IN
    SelectSeq([i \in DOMAIN ls |-> ListItems(ls[i])], LAMBDA items : items # <<>>)

(* table.find_all('tr'): the row of the thead, when it has one, and then   *)
(* the other rows                                                          *)
TableRows(e) ==
    (IF e.thead = "row" THEN <<e.head_cells>> ELSE <<>>) \o e.rows

TableHeaders(e) ==
    IF e.thead # "none" THEN StripAll(e.head_cells) ELSE <<>>

StripCells(cells) == StripAll(cells)

TableData(e) ==
    LET rows == SelectSeq(TableRows(e), LAMBDA cols : cols # <<>>) IN
    [i \in DOMAIN rows |-> StripCells(rows[i])]

TableOf(e) == [headers |-> TableHeaders(e), data |-> TableData(e)]

ExtractTables(soup) ==
    LET ts == find_all(soup, "table") IN
    SelectSeq([i \in DOMAIN ts |-> TableOf(ts[i])], LAMBDA tb : tb.data # <<>>)

ExtractEmails_NoSet(soup, seed) == FindAllEmails(SerializeAll(soup), 1)

ExtractEmails(soup, seed) == ListOfSet(FindAllEmails(SerializeAll(soup), 1), seed)

PhoneMinDigits == 10

ExtractPhones(soup) ==
    StripAll(SelectSeq(FindAllPhones(SerializeAll(soup), 1),
                       LAMBDA p : Len(DigitsOf(p)) >= PhoneMinDigits))

social_patterns ==
    { <<"f", "a", "c", "e", "b", "o", "o", "k", ".", "c", "o", "m">>, <<"t", "w", "i", "t", "t", "e", "r", ".", "c", "o", "m">>, <<"l", "i", "n", "k", "e", "d", "i", "n", ".", "c", "o", "m">>,
      <<"i", "n", "s", "t", "a", "g", "r", "a", "m", ".", "c", "o", "m">>, <<"y", "o", "u", "t", "u", "b", "e", ".", "c", "o", "m">>, <<"g", "i", "t", "h", "u", "b", ".", "c", "o", "m">>,
      <<"p", "i", "n", "t", "e", "r", "e", "s", "t", ".", "c", "o", "m">> }

IsSocial(href) == \E pattern \in social_patterns : Contains(href, pattern)

LowerHref(a) == Lower(a.href)

ExtractSocialLinks(soup, seed) ==
    LET anchors == AnchorsWithHref(soup) IN
    ListOfSet(SelectSeq([i \in DOMAIN anchors |-> LowerHref(anchors[i])], IsSocial), seed)

(* The record returned by the try block *)

ExtractedRecord(doc, seed) ==
    LET soup == Decompose(doc) IN
    [title |-> ExtractTitle(soup),
     meta_description |-> ExtractMetaDescription(soup),
     headings |-> ExtractHeadings(soup),
     paragraphs |-> ExtractParagraphs(soup),
     links |-> ExtractLinks(soup),
     lists |-> [ordered |-> ExtractLists(soup, "ol"),
                unordered |-> ExtractLists(soup, "ul")],
     tables |-> ExtractTables(soup),
     contact_info |-> [emails |-> ExtractEmails(soup, seed),
                       phones |-> ExtractPhones(soup),
                       addresses |-> <<>>],
     social_links |-> ExtractSocialLinks(soup, seed)]

(* The record returned by the except clause *)

FallbackRecord_NoLinks ==
    [title |-> <<>>,
     meta_description |-> <<>>,
     headings |-> <<>>,
     paragraphs |-> <<>>,
     lists |-> [ordered |-> <<>>, unordered |-> <<>>],
     tables |-> <<>>,
     contact_info |-> [emails |-> <<>>, phones |-> <<>>, addresses |-> <<>>],
     social_links |-> <<>>]

FallbackRecord ==
    [title |-> <<>>,
     meta_description |-> <<>>,
     headings |-> <<>>,
     paragraphs |-> <<>>,
     links |-> <<>>,
     lists |-> [ordered |-> <<>>, unordered |-> <<>>],
     tables |-> <<>>,
     contact_info |-> [emails |-> <<>>, phones |-> <<>>, addresses |-> <<>>],
     social_links |-> <<>>]

(* _extract_main_content: html.fault names the facet whose extraction      *)
(* raises an exception inside the try block ("none": no exception).        *)

Markup(doc, fault, seed) == [doc |-> doc, fault |-> fault, seed |-> seed]

_extract_main_content(html) ==
    IF html.fault # "none"
    THEN FallbackRecord
    ELSE ExtractedRecord(html.doc, html.seed)

(* A page that holds no markup, only text *)
PlainPage(body) == Markup(IF body = <<>> THEN <<>> ELSE <<Text(body)>>, "none", 0)

(* The inputs of the extractor: documents of at most MaxNodes elements     *)
(* taken from a pool that holds, for every facet, elements on both sides   *)
(* of each test the code makes.                                            *)

MaxNodes == 2

Pool ==
    { Text(<<" ", "a", "@", "b", ".", "c", "o", " ">>),
      Text(<<"x", " ", "c", "@", "d", ".", "e", "f", " ", "5", "5", "5", "-", "1", "2", "3", "-", "4", "5", "6", "7", " ">>),
      Text(<<"1", "2", "3", "4", "5", " ", "6", "7", "8">>),
      Title(<<" ", "T", " ">>),
      [Title(<<"T", "U">>) EXCEPT !.mixed = TRUE],
      Meta("description", <<" ", "d", " ">>),
      [Meta("description", <<>>) EXCEPT !.has_content = FALSE],
      Heading("h1", <<"A">>),
      Heading("h1", <<" ">>),
      Heading("h2", <<" ", "B">>),
      Paragraph(<<" ">> \o Rep("a", 20) \o <<" ">>),
      Paragraph(<<" ">> \o Rep("b", 21) \o <<" ">>),
      Anchor(<<"#", "t">>, <<"T", "o", "p">>),
      Anchor(<<"/", "x">>, <<" ", "X", " ">>),
      Anchor(<<>>, <<"E">>),
      Anchor(<<"/", "y">>, <<" ">>),
      Element("a", <<"N">>),
      Anchor(<<"H", "T", "T", "P", "S", ":", "/", "/", "G", "i", "t", "H", "u", "b", ".", "c", "o", "m", "/", "U">>, <<"m", "@", "n", ".", "o", "p">>),
      Anchor(<<"h", "t", "t", "p", "s", ":", "/", "/", "g", "i", "t", "h", "u", "b", ".", "c", "o", "m", "/", "u">>, <<" ", "m", "@", "n", ".", "o", "p">>),
      Anchor(<<"h", "t", "t", "p", ":", "/", "/", "t", "w", "i", "t", "t", "e", "r", ".", "c", "o", "m", "/", "t">>, <<>>),
      List("ol", << <<"o", "n", "e">>, <<" ">> >>),
      List("ul", << <<" ">> >>),
      List("ul", << <<" ", "u", " ">> >>),
      Table("row", << <<"H">>, <<"K">> >>, << << <<"1">>, <<"2">> >>, << <<"3">>, <<"4">> >> >>),
      Table("cells", << <<"H">> >>, << << <<" ", "c", " ">> >> >>),
      Table("none", <<>>, << <<>> >>),
      Within("noscript", Anchor(<<"/", "h">>, <<"H", "i", "d">>)),
      Within("noscript", Paragraph(Rep("c", 21))),
      Element("script", <<"s", "@", "t", ".", "u", "v">>) }

Docs == UNION {[1..n -> Pool] : n \in 0..MaxNodes}

FaultPoints == {"none", "tables", "emails"}

HashSeeds == {0, 1}

Markups == {Markup(d, f, h) : d \in Docs, f \in FaultPoints, h \in HashSeeds}

NotExtracted ==
    [done |-> FALSE, record |-> FallbackRecord,
     again |-> FALSE, second |-> FallbackRecord,
     flat |-> <<>>, exported |-> FALSE, printed |-> <<>>]

----------------------------------------------------------------------------
(* The state of one call of scrape_webpage (possibly inside scrape_url) *)

NoContent == [present |-> FALSE, page |-> <<>>, record |-> FallbackRecord]

IsTruthy(content) == DOMAIN content # {}

(* ScrapingChatbot.__init__: the API key is the value of GROQ_API_KEY in   *)
(* the environment, "None" when the variable is not set; no question has   *)
(* been asked.                                                             *)
NoChat == [sent |-> FALSE, context |-> <<>>, result |-> NoResult]

NewChatbot(key) == [api_key |-> key, last |-> NoChat]

(* BeautifulSoup(html_content, 'html.parser') on a page that is one list   *)
(* of one item, <ul><li>text</li></ul>, and on a page without tags          *)
ListOpen == <<"<", "u", "l", ">", "<", "l", "i", ">">>
ListClose == <<"<", "/", "l", "i", ">", "<", "/", "u", "l", ">">>

IsListPage(body) ==
    /\ Len(body) >= Len(ListOpen) + Len(ListClose)
    /\ SubSeq(body, 1, Len(ListOpen)) = ListOpen
    /\ SubSeq(body, Len(body) - Len(ListClose) + 1, Len(body)) = ListClose
    /\ \A i \in (Len(ListOpen) + 1)..(Len(body) - Len(ListClose)) : body[i] \notin {"<", ">", "&"}

ParsePage(body) ==
    IF IsListPage(body)
    THEN Markup(<<List("ul", <<SubSeq(body, Len(ListOpen) + 1, Len(body) - Len(ListClose))>>)>>,
                "none", 0)
    ELSE PlainPage(body)

ContentOf(page) ==
    [present |-> TRUE, page |-> page, record |-> _extract_main_content(ParsePage(page))]

IdleCall ==
    [pc |-> "idle", caller |-> "none", url |-> <<>>,
     max_retries |-> 0, retries |-> 0, last_exception |-> NoError,
     delay |-> 0, status |-> 0, conn_lost |-> FALSE,
     returning |-> FALSE, content |-> <<>>, caught |-> NoError,
     log |-> <<>>, sleeps |-> <<>>, gets |-> 0, bad_gets |-> 0,
     fetch_result |-> NoResult, fetch_session |-> "None",
     content_before |-> NoContent, start_session |-> "None",
     scraped_before |-> FALSE,
     result |-> NoResult, end_session |-> "None"]

Init ==
    /\ session = "None"
    /\ current_content = NoContent
    /\ call = [p \in Procs |-> IdleCall]
    /\ html_content = Markup(<<>>, "none", 0)
    /\ extracted = NotExtracted
    /\ groq = NewChatbot("None")

World(st, s, cc, closed) ==
    [st |-> st, session |-> s, current_content |-> cc, closed_now |-> closed]

Here(p) == World(call[p], session, current_content, FALSE)

----------------------------------------------------------------------------
(* WebScrapingBot.init_session: a new session exactly when there is none   *)
(* or the current one is closed.                                           *)

init_session_ClosedOnly(s) == IF s = "closed" THEN "open" ELSE s

init_session(s) == IF s = "None" \/ s = "closed" THEN "open" ELSE s

(* ScrapingChatbot.scrape_url after the fetch has returned or raised.      *)
(* A call made directly on the bot ends here with the fetch's result.      *)

ScrapeUrlFails_ClearsContent(w, st, e) ==
    IF w.session = "open"
    THEN World([st EXCEPT !.pc = "url_closing", !.caught = e], "closed", NoContent, TRUE)
    ELSE World([st EXCEPT !.pc = "done", !.caught = e,
                          !.result = Raised(ScrapeUrlError(e)),
                          !.end_session = "None"],
               "None", NoContent, w.closed_now)

(* scrape_url, except Exception: close the session and raise *)
ScrapeUrlFails(w, st, e) ==
    IF w.session = "open"
    THEN World([st EXCEPT !.pc = "url_closing", !.caught = e],
               "closed", w.current_content, TRUE)
    ELSE World([st EXCEPT !.pc = "done", !.caught = e,
                          !.result = Raised(ScrapeUrlError(e)),
                          !.end_session = "None"],
               "None", w.current_content, w.closed_now)

(* The end of scrape_webpage: a direct call is done; scrape_url goes on to *)
(* the extraction (pc "extract") when it got a page.                       *)
EndCall(w, res) ==
    LET st == [w.st EXCEPT !.fetch_result = res, !.fetch_session = w.session] IN
    IF st.caller = "direct"
    THEN World([st EXCEPT !.pc = "done", !.result = res, !.end_session = w.session],
               w.session, w.current_content, w.closed_now)
    ELSE IF res.kind = "return" /\ res.value # <<>>
    THEN World([st EXCEPT !.pc = "extract"], w.session, w.current_content, w.closed_now)
    ELSE ScrapeUrlFails(w, st, IF res.kind = "return"
                               THEN Error("Exception", "Failed to get page content", 0)
                               ELSE res.error)

(* scrape_url after the page was fetched: the record is stored, and        *)
(* returned when it is truthy.                                             *)
Store(w, content) ==
    IF IsTruthy(content.record)
    THEN World([w.st EXCEPT !.pc = "done", !.result = w.st.fetch_result,
                            !.end_session = w.session],
               w.session, content, w.closed_now)
    ELSE ScrapeUrlFails(World(w.st, w.session, content, w.closed_now), w.st,
                        Error("Exception", "Failed to extract content from page", 0))

Extract(w) ==
    IF w.st.pc = "extract" THEN Store(w, ContentOf(w.st.fetch_result.value)) ELSE w

(* scrape_webpage, after the while loop *)

ExhaustedResult(st) ==
    IF st.last_exception # NoError
    THEN Raised(st.last_exception)
    ELSE Raised(RetriesExhaustedError)

Backoff_Divided(retries, j) == (BackoffBase * MsPerSecond) \div retries + j

Backoff_JitterScaled(retries, j) == Pow(BackoffBase, retries) * j

Backoff(retries, j) == Pow(BackoffBase, retries) * MsPerSecond + j

Cooldown_OneBased(retries) ==
    (CooldownBase + CooldownStep * (retries + 1)) * MsPerSecond

Cooldown(retries) == (CooldownBase + CooldownStep * retries) * MsPerSecond

StartGet(st) == [st EXCEPT !.pc = "get", !.gets = @ + 1, !.conn_lost = FALSE]

LoopHead_OffByOne(w, j) ==
    LET st == w.st IN
    IF st.retries <= st.max_retries
    THEN LET s1 == init_session(w.session) IN
         IF st.retries > 0
         THEN LET d == Backoff(st.retries, j) IN
              World([st EXCEPT !.pc = "backoff", !.delay = d,
                               !.sleeps = Append(@, [kind |-> "backoff",
                                                     attempt |-> st.retries,
                                                     delay |-> d])],
                    s1, w.current_content, w.closed_now)
         ELSE World(StartGet(st), s1, w.current_content, w.closed_now)
    ELSE EndCall(w, ExhaustedResult(st))

(* scrape_webpage, the head of the while loop up to the first suspension   *)

LoopHead(w, j) ==
    LET st == w.st IN
    IF st.retries < st.max_retries
    THEN LET s1 == init_session(w.session) IN
         IF st.retries > 0
         THEN LET d == Backoff(st.retries, j) IN
              World([st EXCEPT !.pc = "backoff", !.delay = d,
                               !.sleeps = Append(@, [kind |-> "backoff",
                                                     attempt |-> st.retries,
                                                     delay |-> d])],
                    s1, w.current_content, w.closed_now)
         ELSE World(StartGet(st), s1, w.current_content, w.closed_now)
    ELSE EndCall(w, ExhaustedResult(st))

(* scrape_webpage, after the finally block: a pending return leaves the    *)
(* loop, anything else goes round it.                                      *)

AfterFinally(w, j) ==
    IF w.st.returning
    THEN EndCall(w, Returned(w.st.content))
    ELSE LoopHead(w, j)

(* scrape_webpage, the finally block *)

FinallyBlock(w, j) ==
    LET st1 == [w.st EXCEPT !.retries = @ + 1] IN
    IF st1.retries = st1.max_retries /\ st1.last_exception # NoError
    THEN IF w.session = "open"
         THEN World([st1 EXCEPT !.pc = "closing"], "closed", w.current_content, TRUE)
         ELSE AfterFinally(World(st1, "None", w.current_content, w.closed_now), j)
    ELSE AfterFinally(World(st1, w.session, w.current_content, w.closed_now), j)

Except(w, e, j) == FinallyBlock([w EXCEPT !.st.last_exception = e], j)

raise_for_status_Silent(status) == NoError

raise_for_status(status) ==
    IF status >= 400 THEN ClientResponseError(status) ELSE NoError

AfterStatus(w, status, j) ==
    LET e == raise_for_status(status) IN
    IF e # NoError THEN Except(w, e, j) ELSE FinallyBlock(w, j)

ClientErrorStatuses == {404, 401, 403}
RateLimitStatuses == {403, 429}

(* scrape_webpage, the branches on the status of the response *)

On200_ReturnStripped(w, o, j) ==
    IF Strip(o.body) # <<>>
    THEN FinallyBlock([w EXCEPT !.st.returning = TRUE, !.st.content = Strip(o.body)], j)
    ELSE Except(w, EmptyResponseError, j)

On200_NoStrip(w, o, j) ==
    IF o.body # <<>>
    THEN FinallyBlock([w EXCEPT !.st.returning = TRUE, !.st.content = o.body], j)
    ELSE Except(w, EmptyResponseError, j)

On200(w, o, j) ==
    IF Strip(o.body) # <<>>
    THEN FinallyBlock([w EXCEPT !.st.returning = TRUE, !.st.content = o.body], j)
    ELSE Except(w, EmptyResponseError, j)

On500(w, o, j) ==
    IF w.st.retries = w.st.max_retries - 1
    THEN Except(w, PersistentServerError, j)
    ELSE AfterStatus(w, o.status, j)

OnRateLimited(w, o, j) ==
    LET d == Cooldown(w.st.retries) IN
    [w EXCEPT !.st.pc = "cooldown", !.st.delay = d, !.st.status = o.status,
              !.st.sleeps = Append(@, [kind |-> "cooldown",
                                       attempt |-> w.st.retries,
                                       delay |-> d])]

OnErrorStatus(w, o, j) ==
    IF o.status \in ClientErrorStatuses
    THEN Except(w, ClientStatusError(o.status), j)
    ELSE AfterStatus(w, o.status, j)

(* scrape_webpage, from the arrival of the response to the next suspension *)

HandleResponse(w, o, j) ==
    IF o.kind = "timeout" THEN Except(w, TimedOutError, j)
    ELSE IF o.kind = "client_error" THEN Except(w, TransportError, j)
    ELSE IF o.status = 200 THEN On200(w, o, j)
    ELSE IF o.status = 500 THEN On500(w, o, j)
    ELSE IF o.status \in RateLimitStatuses THEN OnRateLimited(w, o, j)
    ELSE IF o.status >= 400 THEN OnErrorStatus(w, o, j)
    ELSE AfterStatus(w, o.status, j)

----------------------------------------------------------------------------
(* Actions *)

(* The state when the call of p suspends or ends in w *)
Suspend(p, w) ==
    /\ session' = w.session
    /\ current_content' = w.current_content
    /\ call' = [q \in Procs |->
                  IF q = p THEN w.st
                  ELSE IF w.closed_now /\ call[q].pc = "get"
                       THEN [call[q] EXCEPT !.conn_lost = TRUE]
                       ELSE call[q]]
    /\ UNCHANGED <<html_content, extracted, groq>>

Commit(p, w) == Suspend(p, Extract(w))

Finished(p) == call[p].pc \in {"idle", "done"}

(* Some scrape_url call of the session has returned a record *)
HasScraped(p) ==
    \/ call[p].scraped_before
    \/ call[p].caller = "scrape_url" /\ call[p].pc = "done" /\ call[p].result.kind = "return"

scrape_webpage(p, mr) ==
    /\ Finished(p)
    /\ Commit(p, LoopHead(World([IdleCall EXCEPT !.caller = "direct",
                                                 !.scraped_before = HasScraped(p),
                                                 !.start_session = session,
                                                 !.max_retries = mr],
                                session, current_content, FALSE), 0))

scrape_url(p, u) ==
    /\ Finished(p)
    /\ LET s1 == init_session(session)
           st == [IdleCall EXCEPT !.caller = "scrape_url", !.url = u,
                                  !.content_before = current_content,
                                  !.scraped_before = HasScraped(p),
                                  !.start_session = session,
                                  !.max_retries = DefaultMaxRetries]
       IN  IF ~ValidUrl(u)
           THEN Commit(p, World([st EXCEPT !.pc = "done",
                                           !.result = Raised(InvalidUrlError),
                                           !.end_session = s1],
                                s1, current_content, FALSE))
           ELSE Commit(p, LoopHead(World(st, s1, current_content, FALSE), 0))

WakeBackoff(p, j) ==
    /\ call[p].pc = "backoff"
    /\ IF session = "open"
       THEN Commit(p, World(StartGet(call[p]), session, current_content, FALSE))
       ELSE LET e == IF session = "None" THEN NoSessionError ELSE SessionClosedError
                st == [call[p] EXCEPT !.bad_gets = @ + 1,
                                      !.log = Append(@, [kind |-> "no_session",
                                                         status |-> 0,
                                                         body |-> <<>>])]
            IN  Commit(p, Except(World(st, session, current_content, FALSE), e, j))

ReceiveResponse(p, o, j) ==
    /\ call[p].pc = "get"
    /\ call[p].conn_lost => o.kind = "client_error"
    /\ LET st == [call[p] EXCEPT !.log = Append(@, o)]
       IN  Commit(p, HandleResponse(World(st, session, current_content, FALSE), o, j))

WakeCooldown_NoBackoff(p, j) ==
    /\ call[p].pc = "cooldown"
    /\ call[p].retries + 1 < call[p].max_retries
    /\ Commit(p, World(StartGet([call[p] EXCEPT
                                    !.retries = @ + 1,
                                    !.last_exception = raise_for_status(call[p].status)]),
                       session, current_content, FALSE))

WakeCooldown(p, j) ==
    /\ call[p].pc = "cooldown"
    /\ Commit(p, AfterStatus(Here(p), call[p].status, j))

CloseResume(p, j) ==
    /\ call[p].pc = "closing"
    /\ Commit(p, AfterFinally(World(call[p], "None", current_content, FALSE), j))

UrlCloseResume(p) ==
    /\ call[p].pc = "url_closing"
    /\ Commit(p, World([call[p] EXCEPT !.pc = "done",
                                       !.result = Raised(ScrapeUrlError(call[p].caught)),
                                       !.end_session = "None"],
                       "None", current_content, FALSE))

(* WebScrapingBot.close_session called by the owner of the bot while no    *)
(* call is running.                                                        *)

close_session ==
    /\ \A p \in Procs : Finished(p)
    /\ session # "None"
    /\ session' = "None"
    /\ UNCHANGED <<current_content, call, html_content, extracted, groq>>

Step(p, outcomes, retryChoices) ==
    \/ \E mr \in retryChoices : scrape_webpage(p, mr)
    \/ \E u \in Urls : scrape_url(p, u)
    \/ \E j \in Jitter : WakeBackoff(p, j)
    \/ \E o \in outcomes, j \in Jitter : ReceiveResponse(p, o, j)
    \/ \E j \in Jitter : WakeCooldown(p, j)
    \/ \E j \in Jitter : CloseResume(p, j)
    \/ UrlCloseResume(p)

Next ==
    \/ \E p \in SeqProcs : Step(p, Outcomes, 0..MaxRetries)
    \/ close_session

Spec == Init /\ [][Next]_vars

(* ScrapingChatbot.chat_with_groq *)

ContextBudget == 15000

Space == <<" ">>

Get(d, k) == IF k \in DOMAIN d THEN d[k] ELSE <<>>

Context_ParagraphsOnly(content) == JoinWith(Space, Get(content, "paragraphs"))

(* The paragraphs joined with " ", then every list item preceded by " " *)
Context(content) ==
    LET ls == IF Get(content, "lists") # <<>>
              THEN content.lists.ordered \o content.lists.unordered
              ELSE <<>>
    IN  JoinWith(Space, Get(content, "paragraphs"))
            \o Concat([i \in DOMAIN ls |-> Space \o JoinWith(Space, ls[i])])

Truncate(s, n) == SubSeq(s, 1, IF Len(s) < n THEN Len(s) ELSE n)

(* What requests.post and the reading of its answer end in *)
PostOutcomes == {"choices", "no_choices", "error"}

PostAnswer(post) ==
    CASE post = "choices" -> "answer of the model"
      [] post = "no_choices" -> "Failed to get a response from Groq."
      [] OTHER -> "Error getting answer"

Asked(sent, context, message) ==
    [sent |-> sent, context |-> context, result |-> Returned(message)]

ListTypes == <<"ordered", "unordered">>

ChatWithGroq(cc, key, question, post) ==
    IF ~cc.present \/ ~IsTruthy(cc.record)
    THEN Asked(FALSE, <<>>, "Please scrape a webpage first before asking questions.")
    ELSE IF key \in {"None", ""}
    THEN Asked(FALSE, <<>>, "Please set the GROQ_API_KEY environment variable.")
    ELSE IF Get(cc.record, "lists") # <<>> /\ ~(SeqToSet(ListTypes) \subseteq DOMAIN cc.record.lists)
    THEN [sent |-> FALSE, context |-> <<>>,
          result |-> Raised(KeyError(SelectSeq(ListTypes,
                                               LAMBDA k : k \notin DOMAIN cc.record.lists)[1]))]
    ELSE IF Context(cc.record) = <<>>
    THEN Asked(FALSE, <<>>, "No content available to answer questions.")
    ELSE Asked(TRUE, Truncate(Context(cc.record), ContextBudget), PostAnswer(post))

Questions == {<<"q">>}

(* The session calls chat_with_groq between two scrapes *)
chat_with_groq(question, post) ==
    /\ \A p \in Procs : Finished(p)
    /\ groq' = [groq EXCEPT !.last = ChatWithGroq(current_content, groq.api_key, question, post)]
    /\ UNCHANGED <<session, current_content, call, html_content, extracted>>

(* A session of scrape_url and chat_with_groq calls *)

ApiKeys == {"None", "", "gsk"}

ListPage == ListOpen \o <<"a">> \o ListClose

ChatUrls == {HttpPrefix \o <<"a">>, <<"a">>}

ChatOutcomes ==
    {Response(200, ListPage), Response(200, <<"a">>), Response(204, <<>>),
     Response(503, <<>>),
     [kind |-> "timeout", status |-> 0, body |-> <<>>]}

InitChat ==
    /\ session = "None"
    /\ current_content = NoContent
    /\ call = [p \in Procs |-> IdleCall]
    /\ html_content = Markup(<<>>, "none", 0)
    /\ extracted = NotExtracted
    /\ \E key \in ApiKeys : groq = NewChatbot(key)

NextChat ==
    \/ \E p \in SeqProcs :
          \/ \E u \in ChatUrls : scrape_url(p, u)
          \/ \E j \in Jitter : WakeBackoff(p, j)
          \/ \E o \in ChatOutcomes, j \in Jitter : ReceiveResponse(p, o, j)
          \/ \E j \in Jitter : CloseResume(p, j)
          \/ UrlCloseResume(p)
    \/ \E q \in Questions, post \in PostOutcomes : chat_with_groq(q, post)

SpecChat == InitChat /\ [][NextChat]_vars

(* The event loop resumes every suspended coroutine: a sleep ends after    *)
(* its delay and a GET ends in a response or, at the latest, in the        *)
(* timeout of the session (total = 30 s).                                  *)

(* One outcome for every branch that scrape_webpage takes on a response *)

FairOutcomes ==
    {Response(200, <<"a">>), Response(200, <<" ">>), Response(204, <<>>),
     Response(404, <<>>), Response(429, <<>>), Response(500, <<>>),
     Response(503, <<>>),
     [kind |-> "timeout", status |-> 0, body |-> <<>>],
     [kind |-> "client_error", status |-> 0, body |-> <<>>]}

Resume(p) ==
    \/ \E j \in Jitter : WakeBackoff(p, j)
    \/ \E o \in FairOutcomes, j \in Jitter : ReceiveResponse(p, o, j)
    \/ \E j \in Jitter : WakeCooldown(p, j)
    \/ \E j \in Jitter : CloseResume(p, j)
    \/ UrlCloseResume(p)

NextFair ==
    \/ \E p \in SeqProcs : Step(p, FairOutcomes, 0..MaxRetries)
    \/ close_session

SpecFair ==
    /\ Init
    /\ [][NextFair]_vars
    /\ \A p \in SeqProcs : WF_vars(Resume(p))

(* Several scrape_webpage calls running as tasks on the same bot *)

ConcOutcomes ==
    {Response(200, <<"a">>), Response(500, <<>>), Response(429, <<>>),
     [kind |-> "client_error", status |-> 0, body |-> <<>>]}

ConcRetries == {1, 2}

StepConc(p) ==
    \/ \E mr \in ConcRetries : scrape_webpage(p, mr)
    \/ \E j \in Jitter : WakeBackoff(p, j)
    \/ \E o \in ConcOutcomes, j \in Jitter : ReceiveResponse(p, o, j)
    \/ \E j \in Jitter : WakeCooldown(p, j)
    \/ \E j \in Jitter : CloseResume(p, j)

NextConc == \E p \in Procs : StepConc(p)

SpecConc == Init /\ [][NextConc]_vars

----------------------------------------------------------------------------
(* Properties *)

FetchDone(p) == call[p].fetch_result.kind # "none"

IsStatus(e, S) == e.kind = "response" /\ e.status \in S

Blank200(e) == IsStatus(e, {200}) /\ Strip(e.body) = <<>>

HasHttpScheme(u) ==
    \/ Len(u) >= 7 /\ SubSeq(u, 1, 7) = <<"h", "t", "t", "p", ":", "/", "/">>
    \/ Len(u) >= 8 /\ SubSeq(u, 1, 8) = <<"h", "t", "t", "p", "s", ":", "/", "/">>

(* C1: when the first GET is answered 404 or 401, the call makes exactly   *)
(* one attempt: no backoff sleep, no second GET, and it ends by raising    *)
(* the client error of that status.                                        *)
C1_ClientErrorSingleAttempt ==
    \A p \in Procs :
        LET c == call[p] IN
        (Len(c.log) >= 1 /\ IsStatus(c.log[1], {404, 401})) =>
            /\ c.gets = 1
            /\ c.sleeps = <<>>
            /\ c.pc \notin {"backoff", "get", "cooldown"}
            /\ FetchDone(p) => c.fetch_result = Raised(ClientStatusError(c.log[1].status))

(* C2: when every attempt is answered 500, the call makes exactly          *)
(* max_retries GETs, the backoff slept before the attempts does not        *)
(* decrease with the attempt index, and the call ends by raising the       *)
(* persistent server error.                                                *)
C2_Persistent500 ==
    \A p \in Procs :
        LET c == call[p] IN
        (/\ FetchDone(p)
         /\ Len(c.log) >= 1
         /\ \A k \in DOMAIN c.log : IsStatus(c.log[k], {500})) =>
            /\ c.gets = c.max_retries
            /\ Len(c.log) = c.max_retries
            /\ Len(c.sleeps) = c.max_retries - 1
            /\ \A i \in DOMAIN c.sleeps :
                  /\ c.sleeps[i].kind = "backoff"
                  /\ c.sleeps[i].attempt = i
                  /\ c.sleeps[i].delay >= 0
                  /\ i > 1 => c.sleeps[i - 1].delay <= c.sleeps[i].delay
            /\ c.fetch_result = Raised(PersistentServerError)

C2_Witness ==
    \E p \in Procs :
        LET c == call[p] IN
        /\ FetchDone(p)
        /\ c.max_retries = 3
        /\ Len(c.log) = 3
        /\ Len(c.sleeps) = 2
        /\ \A k \in DOMAIN c.log : IsStatus(c.log[k], {500})

(* C3: when the first attempt is answered 200 with a body that is not      *)
(* blank, the call returns exactly that body after one GET, without any    *)
(* sleep and without a further attempt.                                    *)
C3_FirstAttemptSuccess ==
    \A p \in Procs :
        LET c == call[p] IN
        (/\ Len(c.log) >= 1
         /\ IsStatus(c.log[1], {200})
         /\ Strip(c.log[1].body) # <<>>) =>
            /\ FetchDone(p)
            /\ c.fetch_result = Returned(c.log[1].body)
            /\ c.gets = 1
            /\ Len(c.log) = 1
            /\ c.sleeps = <<>>

C3_Witness ==
    \E p \in Procs :
        LET c == call[p] IN
        /\ FetchDone(p)
        /\ Len(c.log) = 1
        /\ IsStatus(c.log[1], {200})
        /\ c.log[1].body = <<" ", "a">>
        /\ c.fetch_result.kind = "return"

(* C4: whenever the call ends in failure after its max_retries >= 1        *)
(* attempts, the session has been closed before the error is raised and    *)
(* the error raised is the last error an attempt recorded.                 *)
C4_ClosedBeforeRaise ==
    \A p \in Procs :
        LET c == call[p] IN
        (FetchDone(p) /\ c.fetch_result.kind = "raise" /\ c.max_retries >= 1) =>
            /\ c.fetch_session = "None"
            /\ c.last_exception # NoError
            /\ c.fetch_result.error = c.last_exception

(* C5: a call that returns page content leaves the session open.           *)
C5_SuccessKeepsSession ==
    \A p \in Procs :
        LET c == call[p] IN
        (FetchDone(p) /\ c.fetch_result.kind = "return") => c.fetch_session = "open"

(* C6: concurrent scrape_webpage calls on one bot are safe in every        *)
(* interleaving: no call issues a GET on a session that is None or closed, *)
(* and no call loses an attempt because another call closed the session.   *)
C6_ConcurrentCallsSafe ==
    \A p \in Procs :
        /\ call[p].bad_gets = 0
        /\ ~call[p].conn_lost

C8_EmptyBodyRetried ==
    \A p \in Procs :
        LET c == call[p] IN
        /\ c.fetch_result.kind = "return" => Strip(c.fetch_result.value) # <<>>
        /\ (Len(c.log) >= 1 /\ Blank200(c.log[Len(c.log)])) =>
              /\ c.fetch_result.kind # "return"
              /\ c.last_exception = EmptyResponseError
              /\ Len(c.log) < c.max_retries =>
                    \/ c.pc = "backoff"
                    \/ c.pc = "get" /\ c.gets = Len(c.log) + 1
        /\ (/\ FetchDone(p)
            /\ Len(c.log) >= 1
            /\ \A k \in DOMAIN c.log : Blank200(c.log[k])) =>
              /\ c.gets = c.max_retries
              /\ Len(c.log) = c.max_retries
              /\ c.fetch_result = Raised(EmptyResponseError)

C8_Witness ==
    \E p \in Procs :
        LET c == call[p] IN
        /\ FetchDone(p)
        /\ Len(c.log) = 3
        /\ \A k \in DOMAIN c.log : Blank200(c.log[k])
        /\ c.log[3].body = <<" ">>

(* C9: every call ends with one terminal result after at most max_retries *)
(* GETs: it returns the non-blank body of a 200 response or it raises;     *)
(* with max_retries = 0 it makes no attempt and raises.                    *)
C9_Safety(p) ==
    LET c == call[p] IN
    /\ c.gets <= c.max_retries
    /\ Len(c.log) <= c.max_retries
    /\ c.pc = "done" => c.fetch_result.kind \in {"return", "raise"} \/ c.caller = "scrape_url"
    /\ c.fetch_result.kind = "return" =>
          /\ c.pc = "done"
          /\ IsStatus(c.log[Len(c.log)], {200})
          /\ c.log[Len(c.log)].body = c.fetch_result.value
          /\ Strip(c.fetch_result.value) # <<>>
    /\ (c.caller = "direct" /\ c.max_retries = 0) =>
          /\ c.pc = "done"
          /\ c.gets = 0
          /\ c.fetch_result.kind = "raise"

C9_SingleTerminalResult ==
    /\ [](\A p \in SeqProcs : C9_Safety(p))
    /\ \A p \in SeqProcs : (call[p].pc \notin {"idle", "done"}) ~> (call[p].pc = "done")

C9_Witness ==
    \E p \in SeqProcs :
        LET c == call[p] IN
        /\ c.pc = "done"
        /\ c.max_retries = 3
        /\ c.gets = 3
        /\ c.fetch_result.kind = "return"

(* C10: scrape_url with a URL that starts with neither http:// nor         *)
(* https:// raises ValueError at once: no GET, no sleep, current_content   *)
(* unchanged.                                                              *)
C10_InvalidUrlFailsFast ==
    \A p \in SeqProcs :
        LET c == call[p] IN
        (c.caller = "scrape_url" /\ ~HasHttpScheme(c.url)) =>
            /\ c.pc = "done"
            /\ c.result = Raised(InvalidUrlError)
            /\ c.gets = 0
            /\ c.bad_gets = 0
            /\ c.log = <<>>
            /\ c.sleeps = <<>>
            /\ current_content = c.content_before

C10_Witness ==
    \E p \in SeqProcs :
        LET c == call[p] IN
        /\ c.caller = "scrape_url"
        /\ c.url = <<"h", "t", "t", "p", ":", "/", "a">>
        /\ c.pc = "done"
        /\ c.result.kind = "raise"
        /\ current_content.present

(* C11: the session is created lazily and created again after it was      *)
(* closed, so in a sequential series of calls every GET is issued on an    *)
(* open session, also in a call that follows one that closed the session.  *)
C11_LazySession ==
    \A p \in SeqProcs :
        LET c == call[p] IN
        /\ c.bad_gets = 0
        /\ c.pc \in {"get", "backoff", "cooldown"} => session = "open"
        /\ (c.caller = "scrape_url" /\ c.pc = "done" /\ c.result = Raised(InvalidUrlError)) =>
              c.end_session = "open"

C11_Witness ==
    \E p \in SeqProcs :
        LET c == call[p] IN
        /\ c.pc = "get"
        /\ c.gets = 2
        /\ c.start_session = "None"
        /\ current_content.present
        /\ session = "open"

(* C12: no backoff is slept before the first attempt; the backoff d before *)
(* the attempt with 0-based index r >= 1 satisfies 2^r <= d <= 2^r + 1     *)
(* seconds, so it strictly increases from one attempt to the next.         *)
C12_BackoffRange ==
    \A p \in Procs :
        LET c == call[p]
            B == SelectSeq(c.sleeps, LAMBDA e : e.kind = "backoff")
        IN  /\ Len(c.log) = 0 => B = <<>>
            /\ \A i \in DOMAIN B :
                  /\ B[i].attempt = i
                  /\ Pow(2, i) * 1000 <= B[i].delay
                  /\ B[i].delay <= Pow(2, i) * 1000 + 1000
                  /\ i > 1 => B[i - 1].delay < B[i].delay

C12_Witness ==
    \E p \in Procs :
        LET c == call[p]
            B == SelectSeq(c.sleeps, LAMBDA e : e.kind = "backoff")
        IN  /\ Len(B) = 2
            /\ B[1].delay = 3000
            /\ B[2].delay = 4000
            /\ c.pc = "get"

----------------------------------------------------------------------------
(* scraper.py: the record as the Python object that the export and the     *)
(* display receive.  A dict is the sequence of its items in insertion      *)
(* order.                                                                  *)

PyStr(s) == [type |-> "str", val |-> s]
PyList(items) == [type |-> "list", items |-> items]
PyDict(items) == [type |-> "dict", items |-> items]
Item(k, v) == [key |-> k, value |-> v]

StrList(xs) == PyList([i \in DOMAIN xs |-> PyStr(xs[i])])
StrLists(xss) == PyList([i \in DOMAIN xss |-> StrList(xss[i])])

HeadingsDict(h) ==
    LET levels == SelectSeq(<<1, 2, 3, 4, 5, 6>>, LAMBDA l : l \in DOMAIN h) IN
    PyDict([i \in DOMAIN levels |-> Item(ToString(levels[i]), StrList(h[levels[i]]))])

LinkDict(l) == PyDict(<<Item("url", PyStr(l.url)), Item("text", PyStr(l.text))>>)

TableDict(tb) ==
    PyDict(<<Item("headers", StrList(tb.headers)), Item("data", StrLists(tb.data))>>)

ListsDict(ls) ==
    PyDict(<<Item("ordered", StrLists(ls.ordered)), Item("unordered", StrLists(ls.unordered))>>)

ContactDict(c) ==
    PyDict(<<Item("emails", StrList(c.emails)), Item("phones", StrList(c.phones)),
             Item("addresses", StrList(c.addresses))>>)

RecordKeys ==
    <<"title", "meta_description", "headings", "paragraphs", "links", "lists",
      "tables", "contact_info", "social_links">>

FieldValue(r, k) ==
    CASE k = "title" -> PyStr(r.title)
      [] k = "meta_description" -> PyStr(r.meta_description)
      [] k = "headings" -> HeadingsDict(r.headings)
      [] k = "paragraphs" -> StrList(r.paragraphs)
      [] k = "links" -> PyList([i \in DOMAIN r.links |-> LinkDict(r.links[i])])
      [] k = "lists" -> ListsDict(r.lists)
      [] k = "tables" -> PyList([i \in DOMAIN r.tables |-> TableDict(r.tables[i])])
      [] k = "contact_info" -> ContactDict(r.contact_info)
      [] OTHER -> StrList(r.social_links)

RecordDict(r) ==
    LET keys == SelectSeq(RecordKeys, LAMBDA k : k \in DOMAIN r) IN
    PyDict([i \in DOMAIN keys |-> Item(keys[i], FieldValue(r, keys[i]))])

(* repr of a str: quoted, with the quote, the backslash and the control    *)
(* characters escaped                                                      *)
ReprQuote(s) ==
    IF "'" \in SeqToSet(s) /\ "\"" \notin SeqToSet(s) THEN "\"" ELSE "'"

ReprChar(c, quote) ==
    CASE c = "\\" -> <<"\\", "\\">>
      [] c = "\n" -> <<"\\", "n">>
      [] c = "\r" -> <<"\\", "r">>
      [] c = "\t" -> <<"\\", "t">>
      [] c = quote -> <<"\\", quote>>
      [] OTHER -> <<c>>

ReprStr(s) ==
    <<ReprQuote(s)>> \o Concat([i \in DOMAIN s |-> ReprChar(s[i], ReprQuote(s))])
        \o <<ReprQuote(s)>>

CommaSpace == <<",", " ">>

(* str(v) of an element of a list that does not hold dicts: a str is       *)
(* itself, a list of str is its repr                                       *)
Str(v) ==
    IF v.type = "str" THEN v.val
    ELSE <<"[">> \o JoinWith(CommaSpace, [i \in DOMAIN v.items |-> ReprStr(v.items[i].val)])
             \o <<"]">>

JoinStr_Kept(v) == v

(* ', '.join(map(str, v)) *)
JoinStr(v) == PyStr(JoinWith(CommaSpace, [i \in DOMAIN v.items |-> Str(v.items[i])]))

(* dict(items): one item per key, at the place of the key's first item and *)
(* with the value of its last                                              *)
DictOf(items) ==
    LET firsts == SelectSeq([i \in DOMAIN items |-> i],
                            LAMBDA i : \A j \in 1..(i - 1) : items[j].key # items[i].key)
        last(k) == CHOOSE i \in DOMAIN items :
                      /\ items[i].key = k
                      /\ \A j \in DOMAIN items : items[j].key = k => j <= i
    IN  PyDict([n \in DOMAIN firsts |->
                  Item(items[firsts[n]].key, items[last(items[firsts[n]].key)].value)])

sep == "_"

NewKey(parent_key, k) == IF parent_key # "" THEN parent_key \o sep \o k ELSE k

RECURSIVE _flatten_dict(_, _)
_flatten_dict(d, parent_key) ==
    DictOf(Concat([n \in DOMAIN d.items |->
        LET new_key == NewKey(parent_key, d.items[n].key)
            v == d.items[n].value
        IN  CASE v.type = "dict" -> _flatten_dict(v, new_key).items
              [] v.type = "list" ->
                    IF v.items # <<>> /\ v.items[1].type = "dict"
                    THEN Concat([i \in DOMAIN v.items |->
                            _flatten_dict(v.items[i], new_key \o "_" \o ToString(i - 1)).items])
                    ELSE <<Item(new_key, JoinStr(v))>>
              [] OTHER -> <<Item(new_key, v)>>]))

(* _display_content: content[k] raises KeyError when k is not a key *)
DisplayedKeys ==
    <<"title", "meta_description", "headings", "paragraphs", "images", "links",
      "lists", "tables", "contact_info", "social_links">>

_display_content(content) ==
    LET missing == SelectSeq(DisplayedKeys, LAMBDA k : k \notin DOMAIN content) IN
    IF missing # <<>> THEN Raised(KeyError(missing[1])) ELSE Returned(<<>>)

(* run_interactive_session, the input is a URL and scrape_url has returned *)
(* content: what the session prints up to the export prompt                *)
ShowScraped(content) ==
    IF IsTruthy(content)
    THEN IF _display_content(content).kind = "raise"
         THEN <<"Content scraped successfully!", "Error while scraping">>
         ELSE <<"Content scraped successfully!", "Would you like to export this data?">>
    ELSE <<"No content found on the webpage.">>

----------------------------------------------------------------------------
(* The extractor applied to one document *)

InitExtract ==
    /\ session = "None"
    /\ current_content = NoContent
    /\ call = [p \in Procs |-> IdleCall]
    /\ html_content \in Markups
    /\ extracted = NotExtracted
    /\ groq = NewChatbot("None")

extract_main_content ==
    /\ ~extracted.done
    /\ extracted' = [extracted EXCEPT !.done = TRUE,
                                      !.record = _extract_main_content(html_content)]
    /\ UNCHANGED <<session, current_content, call, html_content, groq>>

(* A second call on the same markup, in this process or in another run of  *)
(* the program, whose hash seed is h.                                      *)
extract_again(h) ==
    /\ extracted.done
    /\ ~extracted.again
    /\ extracted' = [extracted EXCEPT
                        !.again = TRUE,
                        !.second = _extract_main_content([html_content EXCEPT !.seed = h])]
    /\ UNCHANGED <<session, current_content, call, html_content, groq>>

(* export_data: the row of one record *)
export_data ==
    /\ extracted.done
    /\ ~extracted.exported
    /\ extracted' = [extracted EXCEPT
                        !.exported = TRUE,
                        !.flat = _flatten_dict(RecordDict(extracted.record), "")]
    /\ UNCHANGED <<session, current_content, call, html_content, groq>>

(* run_interactive_session after scrape_url has returned the record *)
display_scraped ==
    /\ extracted.done
    /\ extracted.printed = <<>>
    /\ extracted' = [extracted EXCEPT !.printed = ShowScraped(extracted.record)]
    /\ UNCHANGED <<session, current_content, call, html_content, groq>>

NextExtract ==
    \/ extract_main_content
    \/ \E h \in HashSeeds : extract_again(h)

(* The record of one document exported and displayed *)
NextExport ==
    \/ extract_main_content
    \/ export_data
    \/ display_scraped

SpecExport == InitExtract /\ [][NextExport]_vars

SpecExtract == InitExtract /\ [][NextExtract]_vars

(* app.py, chat: the answer to a message that is a URL *)

ChatResponse(code, message) == [code |-> code, message |-> message]

chat(scrape_result) ==
    IF scrape_result.kind = "return"
    THEN IF IsTruthy(ContentOf(scrape_result.value).record)
         THEN ChatResponse(200, "Content scraped successfully!")
         ELSE ChatResponse(404, "No content found on the webpage")
    ELSE ChatResponse(500, "Failed to scrape webpage")

(* Helpers of the properties of the extractor *)

NoDuplicates(xs) == \A i, j \in DOMAIN xs : xs[i] = xs[j] => i = j

(* The k-th smallest index of a set of indices *)
Nth(idx, k) == CHOOSE i \in idx : Cardinality({j \in idx : j < i}) = k - 1

(* xs holds the values of the indices in idx, in the order of the indices *)
HoldsInOrder(xs, values, idx) ==
    /\ Len(xs) = Cardinality(idx)
    /\ \A k \in DOMAIN xs : xs[k] = values[Nth(idx, k)]

HasTag(soup, tags) == \E i \in DOMAIN soup : soup[i].tag \in tags

NineFields ==
    {"title", "meta_description", "headings", "paragraphs", "links", "lists",
     "tables", "contact_info", "social_links"}

AllFacetsEmpty(r) ==
    /\ r.title = <<>>
    /\ r.meta_description = <<>>
    /\ DOMAIN r.headings = {}
    /\ r.paragraphs = <<>>
    /\ r.links = <<>>
    /\ r.lists.ordered = <<>>
    /\ r.lists.unordered = <<>>
    /\ r.tables = <<>>
    /\ r.contact_info.emails = <<>>
    /\ r.contact_info.phones = <<>>
    /\ r.contact_info.addresses = <<>>
    /\ r.social_links = <<>>

(* C13: _extract_main_content returns for every markup, with or without an *)
(* exception inside its try block, a record that has all nine fields,      *)
(* lists with ordered and unordered, contact_info with emails, phones and  *)
(* addresses; a field for which the document holds nothing has its empty   *)
(* value, and after an exception every field has its empty value.          *)
C13_TotalNineFields ==
    extracted.done =>
        LET r == extracted.record
            soup == Decompose(html_content.doc)
            text == SerializeAll(soup)
            faulted == html_content.fault # "none"
            Nothing(tags) == faulted \/ ~HasTag(soup, tags)
        IN  /\ DOMAIN r = NineFields
            /\ DOMAIN r.lists = {"ordered", "unordered"}
            /\ DOMAIN r.contact_info = {"emails", "phones", "addresses"}
            /\ Nothing({"title"}) => r.title = <<>>
            /\ Nothing({"meta"}) => r.meta_description = <<>>
            /\ Nothing({"h1", "h2", "h3", "h4", "h5", "h6"}) => DOMAIN r.headings = {}
            /\ Nothing({"p"}) => r.paragraphs = <<>>
            /\ Nothing({"a"}) => r.links = <<>> /\ r.social_links = <<>>
            /\ Nothing({"ol"}) => r.lists.ordered = <<>>
            /\ Nothing({"ul"}) => r.lists.unordered = <<>>
            /\ Nothing({"table"}) => r.tables = <<>>
            /\ (faulted \/ ~Contains(text, <<"@">>)) => r.contact_info.emails = <<>>
            /\ (faulted \/ \A i \in DOMAIN text : text[i] \notin Digits) =>
                  r.contact_info.phones = <<>>
            /\ r.contact_info.addresses = <<>>
            /\ faulted => AllFacetsEmpty(r)

C13_Witness ==
    /\ extracted.done
    /\ html_content.fault = "emails"
    /\ \E i \in DOMAIN html_content.doc :
          html_content.doc[i].tag = "a" /\ html_content.doc[i].parent = "body"
    /\ DOMAIN extracted.record = NineFields
    /\ extracted.record.links = <<>>

(* C14: when the extraction of one facet raises an exception, only that    *)
(* facet has its empty value in the returned record and every other facet  *)
(* has the value extracted from the document.                              *)
C14_FacetFaultIsolated ==
    extracted.done =>
        LET r == extracted.record
            full == ExtractedRecord(html_content.doc, html_content.seed)
        IN  /\ html_content.fault = "tables" => r = [full EXCEPT !.tables = <<>>]
            /\ html_content.fault = "emails" =>
                  r = [full EXCEPT !.contact_info.emails = <<>>]

(* C15: a table whose thead holds one header row of h cells and which has  *)
(* n further rows of data yields one entry of tables whose headers has     *)
(* length h and whose data has length n.                                   *)
C15_HeaderRowNotCounted ==
    (extracted.done /\ html_content.fault = "none") =>
        LET r == extracted.record
            ts == find_all(Decompose(html_content.doc), "table")
        IN  (/\ Len(ts) = 1
             /\ ts[1].thead = "row"
             /\ \A i \in DOMAIN ts[1].rows : ts[1].rows[i] # <<>>) =>
                /\ Len(r.tables) = 1
                /\ Len(r.tables[1].headers) = Len(ts[1].head_cells)
                /\ Len(r.tables[1].data) = Len(ts[1].rows)

(* C16: contact_info.phones holds no string twice, and every entry is      *)
(* trimmed and has at least 10 digits.                                     *)
C16_PhonesNoDuplicates ==
    extracted.done =>
        LET phones == extracted.record.contact_info.phones IN
        /\ NoDuplicates(phones)
        /\ \A i \in DOMAIN phones :
              /\ Strip(phones[i]) = phones[i]
              /\ Cardinality({k \in DOMAIN phones[i] : phones[i][k] \in Digits}) >= 10

(* C17: contact_info.emails and social_links hold no string twice: emails  *)
(* holds each e-mail address that occurs in the serialized document once,  *)
(* and social_links holds once, lower-cased, each href that contains one   *)
(* of the seven social hosts after lower-casing.                           *)
C17_EmailsSocialNoDuplicates ==
    (extracted.done /\ html_content.fault = "none") =>
        LET r == extracted.record
            soup == Decompose(html_content.doc)
            found == FindAllEmails(SerializeAll(soup), 1)
            hrefs == {Lower(soup[i].href) :
                        i \in {k \in DOMAIN soup : soup[k].tag = "a" /\ soup[k].has_href}}
        IN  /\ NoDuplicates(r.contact_info.emails)
            /\ SeqToSet(r.contact_info.emails) = SeqToSet(found)
            /\ NoDuplicates(r.social_links)
            /\ SeqToSet(r.social_links) =
                  {h \in hrefs : \E host \in social_patterns : Contains(h, host)}
            /\ \A i \in DOMAIN r.social_links : Lower(r.social_links[i]) = r.social_links[i]

C17_Witness ==
    /\ extracted.done
    /\ html_content.fault = "none"
    /\ Len(html_content.doc) = 2
    /\ html_content.doc[1].href # html_content.doc[2].href
    /\ Len(FindAllEmails(SerializeAll(html_content.doc), 1)) = 2
    /\ Len(extracted.record.contact_info.emails) = 1
    /\ extracted.record.social_links = << <<"h", "t", "t", "p", "s", ":", "/", "/", "g", "i", "t", "h", "u", "b", ".", "c", "o", "m", "/", "u">> >>

(* C18: paragraphs holds, in document order, the trimmed text of each p    *)
(* element of the document tree whose trimmed text is longer than 20       *)
(* characters, and nothing else; a text of 20 characters is left out.      *)
C18_ParagraphsLongerThan20 ==
    (extracted.done /\ html_content.fault = "none") =>
        LET soup == Decompose(html_content.doc)
            texts == [i \in DOMAIN soup |-> Strip(soup[i].text)]
            long == {i \in DOMAIN soup : soup[i].tag = "p" /\ Len(texts[i]) > 20}
        IN  HoldsInOrder(extracted.record.paragraphs, texts, long)

C18_Witness ==
    /\ extracted.done
    /\ html_content.fault = "none"
    /\ Len(html_content.doc) = 2
    /\ html_content.doc[1].tag = "p" /\ Len(Strip(html_content.doc[1].text)) = 20
    /\ html_content.doc[2].tag = "p" /\ Len(html_content.doc[2].text) > 21
    /\ html_content.doc[2].parent = "body"
    /\ Len(extracted.record.paragraphs) = 1
    /\ Len(extracted.record.paragraphs[1]) = 21

(* C19: links holds, in document order, one entry for each anchor of the   *)
(* document tree whose href is not empty and does not start with '#' and   *)
(* whose trimmed text is not empty, with the href as its url and the       *)
(* trimmed text as its text, and nothing else.                             *)
C19_LinksFiltered ==
    (extracted.done /\ html_content.fault = "none") =>
        LET soup == Decompose(html_content.doc)
            entries == [i \in DOMAIN soup |->
                          [url |-> soup[i].href, text |-> Strip(soup[i].text)]]
            kept == {i \in DOMAIN soup :
                        /\ soup[i].tag = "a"
                        /\ soup[i].has_href
                        /\ soup[i].href # <<>>
                        /\ soup[i].href[1] # "#"
                        /\ Strip(soup[i].text) # <<>>}
        IN  HoldsInOrder(extracted.record.links, entries, kept)

C19_Witness ==
    /\ extracted.done
    /\ html_content.fault = "none"
    /\ Len(html_content.doc) = 2
    /\ html_content.doc[1].tag = "a" /\ html_content.doc[1].href = <<"#", "t">>
    /\ html_content.doc[2].tag = "a" /\ html_content.doc[2].href = <<"/", "x">>
    /\ extracted.record.links = << [url |-> <<"/", "x">>, text |-> <<"X">>] >>

(* C20: when the page that scrape_url fetched yields a record whose facets *)
(* are all empty, scrape_url does not return the record as a success and   *)
(* the /chat handler does not answer with a success.                       *)
C20_AllEmptyNotSuccess ==
    \A p \in SeqProcs :
        LET c == call[p] IN
        (/\ c.caller = "scrape_url"
         /\ c.pc = "done"
         /\ c.fetch_result.kind = "return"
         /\ c.fetch_result.value # <<>>
         /\ AllFacetsEmpty(ContentOf(c.fetch_result.value).record)) =>
            /\ c.result.kind # "return"
            /\ chat(c.result).code # 200


(* C21: two calls of _extract_main_content on the same markup return equal *)
(* records, the order of emails and social_links included.                 *)
C21_Deterministic ==
    extracted.again => extracted.second = extracted.record

(* C23: no item sequence of lists.ordered or lists.unordered is empty, no  *)
(* item is empty or whitespace-only, and every entry of tables has at      *)
(* least one data row.                                                     *)
C23_NoEmptyListsOrTables ==
    extracted.done =>
        LET r == extracted.record
            lists == r.lists.ordered \o r.lists.unordered
        IN  /\ \A i \in DOMAIN lists :
                  /\ lists[i] # <<>>
                  /\ \A k \in DOMAIN lists[i] :
                        \E n \in DOMAIN lists[i][k] : lists[i][k][n] \notin Whitespace
            /\ \A i \in DOMAIN r.tables : r.tables[i].data # <<>>

C23_Witness ==
    /\ extracted.done
    /\ html_content.fault = "none"
    /\ Len(html_content.doc) = 2
    /\ html_content.doc[1].tag = "ul" /\ html_content.doc[1].items = << <<" ">> >>
    /\ html_content.doc[2].tag = "table" /\ html_content.doc[2].rows = << <<>> >>
    /\ extracted.record.lists.unordered = <<>>
    /\ extracted.record.tables = <<>>

(* C29: each heading level that is a key of headings maps to a non-empty   *)
(* sequence of non-empty trimmed texts: a level whose heading elements all *)
(* have blank text is not a key.                                           *)
C29_NoEmptyHeadingLevel ==
    extracted.done =>
        LET h == extracted.record.headings IN
        \A l \in DOMAIN h :
            /\ h[l] # <<>>
            /\ \A k \in DOMAIN h[l] : h[l][k] # <<>> /\ Strip(h[l][k]) = h[l][k]

(* Helpers of the properties of the export *)

RECURSIVE IsJoined(_, _)
IsJoined(s, xs) ==
    IF xs = <<>> THEN s = <<>>
    ELSE IF Len(xs) = 1 THEN s = xs[1]
    ELSE /\ Len(s) >= Len(xs[1]) + 2
         /\ SubSeq(s, 1, Len(xs[1])) = xs[1]
         /\ SubSeq(s, Len(xs[1]) + 1, Len(xs[1]) + 2) = <<",", " ">>
         /\ IsJoined(SubSeq(s, Len(xs[1]) + 3, Len(s)), Tail(xs))

FlatKeys(flat) == {flat.items[i].key : i \in DOMAIN flat.items}

FlatValue(flat, k) == flat.items[CHOOSE i \in DOMAIN flat.items : flat.items[i].key = k].value

(* C22: the flattened record is a flat mapping whose values are all        *)
(* scalars; the keys of a nested mapping are joined to the parent key with *)
(* '_', a sequence of scalars becomes its elements joined with ', ', and a *)
(* sequence of mappings is expanded under the key suffixed with _<index>.  *)
C22_FlatScalars ==
    extracted.exported =>
        LET flat == extracted.flat
            r == extracted.record
        IN  /\ \A i \in DOMAIN flat.items : flat.items[i].value.type = "str"
            /\ \A i, j \in DOMAIN flat.items : flat.items[i].key = flat.items[j].key => i = j
            /\ {"contact_info_emails", "contact_info_phones", "contact_info_addresses",
                "lists_ordered", "lists_unordered", "paragraphs", "social_links"}
                   \subseteq FlatKeys(flat)
            /\ IsJoined(FlatValue(flat, "paragraphs").val, r.paragraphs)
            /\ IsJoined(FlatValue(flat, "social_links").val, r.social_links)
            /\ IsJoined(FlatValue(flat, "contact_info_emails").val, r.contact_info.emails)
            /\ IsJoined(FlatValue(flat, "contact_info_phones").val, r.contact_info.phones)
            /\ \A l \in DOMAIN r.headings :
                  /\ "headings_" \o ToString(l) \in FlatKeys(flat)
                  /\ IsJoined(FlatValue(flat, "headings_" \o ToString(l)).val, r.headings[l])
            /\ "links" \in DOMAIN r =>
                  \A n \in DOMAIN r.links :
                      /\ {"links_" \o ToString(n - 1) \o "_url",
                          "links_" \o ToString(n - 1) \o "_text"} \subseteq FlatKeys(flat)
                      /\ FlatValue(flat, "links_" \o ToString(n - 1) \o "_url").val = r.links[n].url
                      /\ FlatValue(flat, "links_" \o ToString(n - 1) \o "_text").val = r.links[n].text
            /\ \A n \in DOMAIN r.tables :
                  /\ {"tables_" \o ToString(n - 1) \o "_headers",
                      "tables_" \o ToString(n - 1) \o "_data"} \subseteq FlatKeys(flat)
                  /\ IsJoined(FlatValue(flat, "tables_" \o ToString(n - 1) \o "_headers").val,
                              r.tables[n].headers)

C22_Witness ==
    /\ extracted.exported
    /\ Len(extracted.record.tables) = 1
    /\ Len(extracted.record.lists.ordered) = 1
    /\ FlatValue(extracted.flat, "tables_0_headers").val = <<"H", ",", " ", "K">>
    /\ FlatValue(extracted.flat, "lists_ordered").val = <<"[", "'", "o", "n", "e", "'", "]">>
    /\ FlatValue(extracted.flat, "tables_0_data").val = <<"[", "'", "H", "'", ",", " ", "'", "K", "'", "]", ",", " ", "[", "'", "1", "'", ",", " ", "'", "2", "'", "]", ",", " ", "[", "'", "3", "'", ",", " ", "'", "4", "'", "]">>

(* C28: displaying the record after a successful scrape completes without  *)
(* error: success is reported and the export prompt is reached.            *)
C28_DisplayCompletes ==
    extracted.printed # <<>> =>
        /\ "Error while scraping" \notin SeqToSet(extracted.printed)
        /\ "Would you like to export this data?" \in SeqToSet(extracted.printed)

(* Helpers of the properties of the retry loop *)

RetryableFailure(e) ==
    \/ e.kind \in {"timeout", "client_error"}
    \/ e.kind = "response" /\ e.status >= 400 /\ e.status \notin {401, 403, 404, 429, 500}

StandardBackoff(s, n) ==
    /\ s.kind = "backoff"
    /\ s.attempt = n
    /\ s.delay >= Pow(2, n) * 1000
    /\ s.delay <= Pow(2, n) * 1000 + 1000

RECURSIVE SumDelays(_)
SumDelays(ss) == IF ss = <<>> THEN 0 ELSE Head(ss).delay + SumDelays(Tail(ss))

(* The sleeps between the n-th GET of a call and the next one *)
GapAfter(c, n) ==
    SumDelays(SelectSeq(c.sleeps, LAMBDA s : \/ s.kind = "cooldown" /\ s.attempt = n - 1
                                             \/ s.kind = "backoff" /\ s.attempt = n))

(* C24: an attempt that ends in a timeout, a connection error or a status  *)
(* >= 400 other than 401, 403, 404, 429 and 500 does not end the call      *)
(* while attempts remain: its error is recorded as the last error and the  *)
(* next attempt follows after the standard backoff.                        *)
C24_TransientRetried ==
    \A p \in Procs :
        LET c == call[p] IN
        \A n \in DOMAIN c.log :
            RetryableFailure(c.log[n]) =>
                /\ n = Len(c.log) =>
                      /\ c.last_exception # NoError
                      /\ c.log[n].kind = "timeout" => c.last_exception.msg = "Request timed out"
                      /\ c.log[n].kind = "response" => c.last_exception.status = c.log[n].status
                      /\ c.fetch_result.kind # "return"
                /\ (n = Len(c.log) /\ n < c.max_retries) =>
                      \/ c.pc = "backoff" /\ StandardBackoff(c.sleeps[Len(c.sleeps)], n)
                      \/ c.pc = "get" /\ c.gets = n + 1
                /\ (FetchDone(p) /\ n < c.max_retries) => Len(c.log) > n
                /\ c.gets > n => \E i \in DOMAIN c.sleeps : StandardBackoff(c.sleeps[i], n)

C24_Witness ==
    \E p \in Procs :
        LET c == call[p] IN
        /\ Len(c.log) = 2
        /\ IsStatus(c.log[1], {503})
        /\ c.log[2].kind = "timeout"
        /\ c.pc = "get"
        /\ c.gets = 3

(* C25: after a 403 or 429 on the attempt with index k = n - 1, the next   *)
(* GET comes after the cooldown 10 + 5k and then the backoff 2^(k+1) plus  *)
(* jitter; the gap is longer than after any other failed attempt of the    *)
(* same index.                                                             *)
C25_CooldownThenBackoff ==
    \A p \in Procs :
        LET c == call[p] IN
        \A n \in DOMAIN c.log :
            c.gets > n =>
                IF IsStatus(c.log[n], {403, 429})
                THEN /\ \E i \in 1..(Len(c.sleeps) - 1) :
                           /\ c.sleeps[i] = [kind |-> "cooldown", attempt |-> n - 1,
                                             delay |-> (10 + 5 * (n - 1)) * 1000]
                           /\ StandardBackoff(c.sleeps[i + 1], n)
                     /\ GapAfter(c, n) > Pow(2, n) * 1000 + 1000
                ELSE GapAfter(c, n) <= Pow(2, n) * 1000 + 1000

C25_Witness ==
    \E p \in Procs :
        LET c == call[p] IN
        /\ Len(c.log) = 2
        /\ IsStatus(c.log[1], {503})
        /\ IsStatus(c.log[2], {429})
        /\ c.gets = 3
        /\ GapAfter(c, 1) = 2000
        /\ GapAfter(c, 2) = 15000 + 5000

(* Helpers of the properties of the chatbot *)

FetchFailed(c) ==
    /\ c.caller = "scrape_url"
    /\ c.pc = "done"
    /\ c.result.kind = "raise"
    /\ c.result.error # InvalidUrlError

(* C26: a scrape_url whose fetch failed raises, leaves the bot with no     *)
(* session and leaves current_content as it was before the call; a         *)
(* question asked after it is answered from the content of the earlier     *)
(* successful scrape.                                                      *)
C26_State ==
    \A p \in SeqProcs :
        FetchFailed(call[p]) =>
            /\ current_content = call[p].content_before
            /\ call[p].end_session = "None"
            /\ call[p].result.error.type = "Exception"
            /\ call[p].result.error.msg = "Failed to scrape URL"

C26_Chat ==
    \A p \in SeqProcs :
        (/\ FetchFailed(call[p])
         /\ call[p].content_before.present
         /\ call[p].content_before.record.lists.unordered # <<>>
         /\ groq.api_key \notin {"None", ""}
         /\ \E q \in Questions, post \in PostOutcomes : chat_with_groq(q, post))
        => /\ groq'.last.sent
           /\ groq'.last.context =
                 <<" ">> \o call[p].content_before.record.lists.unordered[1][1]

C26_FailedScrapeKeepsContent == [](C26_State) /\ [][C26_Chat]_vars

C26_Witness ==
    \E p \in SeqProcs :
        /\ FetchFailed(call[p])
        /\ call[p].content_before.present
        /\ call[p].content_before.page = ListPage
        /\ current_content.record.lists.unordered = << <<"a">> >>
        /\ session = "None"
        /\ groq.last.sent
        /\ groq.last.context = <<" ", "a">>

(* C27: chat_with_groq sends a request to the API exactly when some        *)
(* earlier scrape_url succeeded, an API key is set and the paragraphs and  *)
(* list items of the content are not all absent; otherwise it returns the  *)
(* message of the first condition that fails, and it never raises.         *)
C27_Chat ==
    (\E q \in Questions, post \in PostOutcomes : chat_with_groq(q, post)) =>
        LET scraped == \E p \in SeqProcs : HasScraped(p)
            has_key == groq.api_key \notin {"None", ""}
            r == current_content.record
            digest == r.paragraphs # <<>> \/ r.lists.ordered # <<>> \/ r.lists.unordered # <<>>
            last == groq'.last
        IN  /\ last.result.kind = "return"
            /\ last.sent <=> (scraped /\ has_key /\ digest)
            /\ ~scraped =>
                  last.result.value = "Please scrape a webpage first before asking questions."
            /\ (scraped /\ ~has_key) =>
                  last.result.value = "Please set the GROQ_API_KEY environment variable."
            /\ (scraped /\ has_key /\ ~digest) =>
                  last.result.value = "No content available to answer questions."
            /\ ~last.sent => last.context = <<>>

C27_SendsOnlyWithContent == [][C27_Chat]_vars

C27_Witness ==
    /\ groq.api_key = "gsk"
    /\ groq.last.sent
    /\ groq.last.context = <<" ", "a">>
    /\ groq.last.result = Returned("answer of the model")
    /\ \E p \in SeqProcs :
          /\ call[p].scraped_before
          /\ call[p].pc = "done"
          /\ call[p].result.kind = "return"
          /\ call[p].fetch_result.value = ListPage

====
